---- MODULE Spec2Model ----
(***************************************************************************)
(* A model of trychange.py: the client that packages a diff and sends it   *)
(* to the try server, either by HTTP or by committing it to a subversion   *)
(* repository.                                                             *)
(*                                                                         *)
(* Representation of Python values:                                        *)
(*  - options that are only tested for truth and passed on (host, port,    *)
(*    svn_repo, email, diff, url, revision, root, target, project, proxy)  *)
(*    are strings, "" standing for None and for the empty string alike;    *)
(*  - options.user and options.name are sequences of one-character         *)
(*    strings, since EscapeDot and the file name are computed from their   *)
(*    characters; None is a value of its own, distinct from the empty      *)
(*    string <<>>, since line 503 tests `is None`;                         *)
(*  - integer options (issue, patchset, patchlevel) are naturals, 0        *)
(*    standing for None and for 0 alike (both are false in Python);        *)
(*  - list options (bot, tests, files) are sequences of strings, <<>>      *)
(*    standing for None and for the empty list alike; a --patchlevel that  *)
(*    is not on the command line is -1 in argv;                            *)
(*  - a diff (options.diff, first the path of --diff, then the content) is *)
(*    a sequence of tokens, <<>> standing for None and for '' alike; a     *)
(*    line of git's output is a sequence of characters in which the text   *)
(*    "/dev/null" and a path are one token each.                           *)
(***************************************************************************)
EXTENDS Integers, Sequences, FiniteSets, TLC

None == <<"<None>">>

NotGiven == "<not given>"

HELP_STRING == "Sorry, Tryserver is not available."

\* Python truth of a character-sequence value (None and '' are false).
Truthy(v) == v # None /\ v # <<>>

\* The value an option takes: the one on the command line, else its default.
OptValue(given, default) == IF given = NotGiven THEN default ELSE given

(***************************************************************************)
(* Bounds of the model.                                                    *)
(***************************************************************************)
\* datetime.datetime.now() takes seconds 0..MaxSec and microseconds 0..MaxUsec
MaxSec == 1

MaxUsec == 1

\* number of _SendChangeSVN calls made one after the other by DirectCall
MaxCalls == 2

(***************************************************************************)
(* Pure functions of the program.                                          *)
(***************************************************************************)
EscapeDot(name) ==
  [i \in 1..Len(name) |-> IF name[i] = "." THEN "-" ELSE name[i]]

\* sep.join(list)
RECURSIVE JoinWith(_, _)
JoinWith(list, sep) ==
  IF list = <<>> THEN ""
  ELSE IF Len(list) = 1 THEN list[1]
  ELSE list[1] \o sep \o JoinWith(Tail(list), sep)

\* ','.join(list)
Join(list) == JoinWith(list, ",")

\* Exception.__str__ of InvalidScript and NoTryServerAccess
ExcStr(e) == <<e.msg, "\n", HELP_STRING>>

\* GetTryServerSettings: the settings dictionary; default_transport is absent
\* ("none") when neither branch of lines 92-96 is taken.
SafeResolve(host, resolvable) == host \in resolvable

GetTryServerSettings(cr, resolvable) ==
  [ http_port |-> cr.TRYSERVER_HTTP_PORT,
    http_host |-> cr.TRYSERVER_HTTP_HOST,
    svn_repo |-> cr.TRYSERVER_SVN_URL,
    default_project |-> cr.TRYSERVER_PROJECT,
    default_root |-> cr.TRYSERVER_ROOT,
    default_patchlevel |-> cr.TRYSERVER_PATCHLEVEL,
    default_transport |->
      IF cr.TRYSERVER_HTTP_PORT # "" /\ cr.TRYSERVER_HTTP_HOST # ""
           /\ SafeResolve(cr.TRYSERVER_HTTP_HOST, resolvable)
        THEN "http"
      ELSE IF cr.TRYSERVER_SVN_URL # "" THEN "svn"
      ELSE "none" ]

\* SwitchDefault with the two tests of lines 462-465 in the other order.
SwitchDefault_SvnFirst(send_patch, host, port, svn_repo) ==
  IF send_patch # "none" THEN send_patch
  ELSE IF svn_repo # "" THEN "svn"
  ELSE IF port # "" /\ host # "" THEN "http"
  ELSE "error"

\* Lines 460-467: the transport when parse_args left send_patch unset;
\* "error" is parser.error('Please specify an access method.').
SwitchDefault(send_patch, host, port, svn_repo) ==
  IF send_patch # "none" THEN send_patch
  ELSE IF port # "" /\ host # "" THEN "http"
  ELSE IF svn_repo # "" THEN "svn"
  ELSE "error"

\* getpass.getuser(), the default of --user
getuser == <<"m", "e">>

\* Lines 356-458: the options object parse_args returns for a command line.
ParseArgs(av, st) ==
  [ user |-> IF av.user = None THEN getuser ELSE av.user,
    email |-> av.email,
    name |-> av.name,
    issue |-> av.issue,
    patchset |-> av.patchset,
    bot |-> av.bot,
    revision |-> av.revision,
    clobber |-> av.clobber,
    target |-> av.target,
    project |-> OptValue(av.project, st.default_project),
    tests |-> av.tests,
    files |-> av.files,
    diff |-> av.diff,
    url |-> av.url,
    root |-> OptValue(av.root, st.default_root),
    patchlevel |-> IF av.patchlevel < 0 THEN st.default_patchlevel
                   ELSE av.patchlevel,
    send_patch |-> IF av.use # "none" THEN av.use ELSE st.default_transport,
    host |-> OptValue(av.host, st.http_host),
    port |-> OptValue(av.port, st.http_port),
    proxy |-> av.proxy,
    svn_repo |-> OptValue(av.svn_repo, st.svn_repo) ]

\* Lines 471-472: the test guarding 'Nothing to try, changelist is empty.'
NothingToTry(o) ==
  /\ o.files = <<>>
  /\ (o.issue = 0 /\ o.patchset # 0)
  /\ o.diff = <<>>
  /\ o.url = ""

\* PayloadKeys with `if options.patchlevel is not None` at line 205.
PayloadKeys_PatchlevelNotNone(o) ==
  {"user", "name", "patchlevel"}
    \cup (IF o.email # "" THEN {"email"} ELSE {})
    \cup (IF o.bot # <<>> THEN {"bot"} ELSE {})
    \cup (IF o.revision # "" THEN {"revision"} ELSE {})
    \cup (IF o.clobber THEN {"clobber"} ELSE {})
    \cup (IF o.tests # <<>> THEN {"tests"} ELSE {})
    \cup (IF o.root # "" THEN {"root"} ELSE {})
    \cup (IF o.issue # 0 THEN {"issue"} ELSE {})
    \cup (IF o.patchset # 0 THEN {"patchset"} ELSE {})
    \cup (IF o.target # "" THEN {"target"} ELSE {})
    \cup (IF o.project # "" THEN {"project"} ELSE {})

\* _ParseSendChangeOptions: the keys of the dictionary it returns ...
PayloadKeys(o) ==
  {"user", "name"}
    \cup (IF o.email # "" THEN {"email"} ELSE {})
    \cup (IF o.bot # <<>> THEN {"bot"} ELSE {})
    \cup (IF o.revision # "" THEN {"revision"} ELSE {})
    \cup (IF o.clobber THEN {"clobber"} ELSE {})
    \cup (IF o.tests # <<>> THEN {"tests"} ELSE {})
    \cup (IF o.root # "" THEN {"root"} ELSE {})
    \cup (IF o.patchlevel # 0 THEN {"patchlevel"} ELSE {})
    \cup (IF o.issue # 0 THEN {"issue"} ELSE {})
    \cup (IF o.patchset # 0 THEN {"patchset"} ELSE {})
    \cup (IF o.target # "" THEN {"target"} ELSE {})
    \cup (IF o.project # "" THEN {"project"} ELSE {})

\* ... and the value it stores under a key.
PayloadValue(o, k) ==
  CASE k = "bot" -> Join(o.bot)
    [] k = "tests" -> Join(o.tests)
    [] k = "clobber" -> "true"
    [] OTHER -> o[k]

\* The dictionary is a function from its keys.
ParseSendChangeOptions(o) ==
  [k \in PayloadKeys(o) |-> PayloadValue(o, k)]

(***************************************************************************)
(* State.                                                                  *)
(***************************************************************************)
VARIABLES
  codereview,        \* the codereview.settings values gcl.GetCodeReviewSetting reads
  dns,               \* the host names socket.getaddrinfo resolves
  argv,              \* the command line of the run, option by option
  swallow_exception, \* TryChange's parameter
  options,           \* the options object of the run
  scm,               \* options.scm: "unset", "SVN" or "GIT"
  pc,                \* where control is
  caller,            \* who called the transport: "TryChange" or "direct"
  status,            \* how TryChange ended: "running", "return0", "return1",
                     \* "exit" (SystemExit of parser.error), "escaped"
  exc,               \* the exception in flight, or the one that ended the call
  output,            \* what was printed, in order
  probe,             \* what GuessVCS found in the working directory
  ngenerated,        \* number of _GenerateDiff calls of the run
  slaves_called,     \* whether DoGetTrySlaves was invoked
  attempts,          \* the transports dispatched by line 516, in order
  requests,          \* the HTTP requests issued: the posted values, in order
  values,            \* the dictionary _ParseSendChangeOptions returned last
  temp_dir,          \* number of temporary checkout directories that exist
  temp_file,         \* number of temporary commit-message files that exist
  now,               \* what datetime.datetime.now() returns in the current call
  file_name,         \* _SendChangeSVN's local file_name
  file_found,        \* _SendChangeSVN's local file_found
  cmdlog,            \* the svn commands and file writes of the current call
  remote,            \* the shared repository: file name -> content
  calls              \* the finished _SendChangeSVN calls, in order

inputs == <<codereview, dns, argv, swallow_exception>>

run == <<options, scm, status, output, probe, ngenerated, slaves_called,
         attempts>>

svn == <<temp_dir, temp_file, now, file_name, file_found, cmdlog, remote,
         calls>>

vars == <<inputs, run, svn, pc, caller, exc, requests, values>>

NoExc == [kind |-> "none"]

NoTryServerAccess(msg) == [kind |-> "NoTryServerAccess", msg |-> msg]

CheckCallError(command, retcode) ==
  [kind |-> "CheckCallError", command |-> command, retcode |-> retcode,
   stdout |-> "<output of " \o command[Len(command)] \o ">"]

OtherError(kind) == [kind |-> kind]

\* The errors the except clause of line 519 catches.
Classified == {"InvalidScript", "NoTryServerAccess"}

(***************************************************************************)
(* Version control: GuessVCS and the SVN and GIT constructors.  `env` is   *)
(* what the working directory and the installed tools answer: whether      *)
(* .svn is a directory, which backend command fails (and with which exit   *)
(* code), and what the commands that succeed print.                        *)
(***************************************************************************)
\* retcode of a command that could not be run (line 340)
ENOENT == 2

Ok(kind, o, ngen) ==
  [kind |-> "ok", scm |-> kind, options |-> o, ngen |-> ngen]

Raise(e, o, ngen) ==
  [kind |-> "raise", exc |-> e, options |-> o, ngen |-> ngen]

\* scm.SVN.DiffItem(f): None for a directory
DiffItem(f, env) == IF f \in env.dirs THEN <<>> ELSE <<"diff of " \o f>>

\* "".join(filter(None, [scm.SVN.DiffItem(f) for f in files]))
RECURSIVE ConcatDiff(_, _)
ConcatDiff(files, env) ==
  IF files = <<>> THEN <<>>
  ELSE DiffItem(Head(files), env) \o ConcatDiff(Tail(files), env)

\* SVN.__init__ with SVN._GenerateDiff (lines 116-140)
SVN_init(o, env) ==
  LET needDiff == o.diff = <<>>
      needStatus == needDiff /\ o.files = <<>>
      files == IF needStatus THEN env.status ELSE o.files
      o1 == IF needDiff
              THEN [o EXCEPT !.files = files, !.diff = ConcatDiff(files, env)]
              ELSE o
      ngen == IF needDiff THEN 1 ELSE 0
      needEmail == o.email = ""
      fails(c) == CheckCallError(<<"svn", c>>, env.retcode)
  IN  IF env.fail = "svn info" THEN Raise(fails("info"), o, 0)
      ELSE IF needStatus /\ env.fail = "svn status"
        THEN Raise(fails("status"), o, 1)
      ELSE IF needDiff /\ files # <<>> /\ env.fail = "svn diff"
        THEN Raise(fails("diff"), [o EXCEPT !.files = files], 1)
      ELSE IF needEmail /\ env.fail = "svn email"
        THEN Raise(fails("email"), o1, ngen)
      ELSE Ok("SVN", IF needEmail THEN [o1 EXCEPT !.email = env.email] ELSE o1,
              ngen)

\* line.startswith('--- /dev/null')
StartsWithNull(line) ==
  /\ Len(line) >= 5
  /\ SubSeq(line, 1, 5) = <<"-", "-", "-", " ", "/dev/null">>

\* '--- %s' % next[4:]
NullHeader(next) == <<"-", "-", "-", " ">> \o SubSeq(next, 5, Len(next))

\* The loop of lines 165-169 raises IndexError when the last line starts
\* with '--- /dev/null'.
RewriteFails(lines) == lines # <<>> /\ StartsWithNull(lines[Len(lines)])

\* The lines after the loop of lines 165-169.
Rewrite(lines) ==
  [i \in 1..Len(lines) |->
     IF StartsWithNull(lines[i]) /\ i < Len(lines)
       THEN NullHeader(lines[i + 1])
       ELSE lines[i]]

\* ''.join(diff)
RECURSIVE JoinLines(_)
JoinLines(lines) ==
  IF lines = <<>> THEN <<>> ELSE Head(lines) \o JoinLines(Tail(lines))

\* branch.startswith('refs/heads/'): the prefix is one token of the output
OnBranch(branch) == branch # <<>> /\ branch[1] = "refs/heads/"

\* GIT.__init__ with GIT._GenerateDiff and GIT._GetPatchName (lines 149-181)
GIT_init(o, env) ==
  LET needDiff == o.diff = <<>>
      o1 == IF needDiff
              THEN [o EXCEPT !.diff = JoinLines(Rewrite(env.gitlines))]
              ELSE o
      ngen == IF needDiff THEN 1 ELSE 0
      needName == ~Truthy(o.name)
      o2 == IF needName THEN [o1 EXCEPT !.name = Tail(env.branch)] ELSE o1
      needEmail == o.email = ""
      fails(c) == CheckCallError(<<"git", c>>, env.retcode)
  IN  IF env.fail = "git rev-parse --show-cdup"
        THEN Raise(fails("rev-parse --show-cdup"), o, 0)
      ELSE IF needDiff /\ env.fail = "git cl upstream"
        THEN Raise(fails("cl upstream"), o, 1)
      ELSE IF needDiff /\ env.fail = "git diff-tree"
        THEN Raise(fails("diff-tree"), o, 1)
      ELSE IF needDiff /\ RewriteFails(env.gitlines)
        THEN Raise(OtherError("IndexError"), o, 1)
      ELSE IF needName /\ env.fail = "git symbolic-ref"
        THEN Raise(fails("symbolic-ref HEAD"), o1, ngen)
      ELSE IF needName /\ ~OnBranch(env.branch)
        THEN Raise(NoTryServerAccess(<<"Couldn't figure out branch name">>),
                   o1, ngen)
      ELSE IF needEmail /\ env.fail = "git config"
        THEN Raise(fails("config user.email"), o2, ngen)
      ELSE Ok("GIT", IF needEmail THEN [o2 EXCEPT !.email = env.email] ELSE o2,
              ngen)

CouldNotGuess ==
  NoTryServerAccess(<<"Could not guess version control system. ",
                      "Are you in a working copy directory?">>)

\* GuessVCS without the test of the return code at line 340.
GuessVCS_AnyRetcode(o, env) ==
  IF env.svnDir THEN SVN_init(o, env)
  ELSE
    LET r == IF env.fail = "git rev-parse --is-inside-work-tree"
               THEN Raise(CheckCallError(<<"git", "rev-parse">>, env.retcode),
                          o, 0)
               ELSE GIT_init(o, env)
    IN  IF r.kind = "raise" /\ r.exc.kind = "CheckCallError"
          THEN Raise(CouldNotGuess, r.options, r.ngen)
          ELSE r

\* GuessVCS (lines 314-343)
GuessVCS(o, env) ==
  IF env.svnDir THEN SVN_init(o, env)
  ELSE
    LET r == IF env.fail = "git rev-parse --is-inside-work-tree"
               THEN Raise(CheckCallError(<<"git", "rev-parse">>, env.retcode),
                          o, 0)
               ELSE GIT_init(o, env)
    IN  IF r.kind = "raise" /\ r.exc.kind = "CheckCallError"
          THEN IF r.exc.retcode # ENOENT THEN r
               ELSE Raise(CouldNotGuess, r.options, r.ngen)
          ELSE r

(***************************************************************************)
(* TryChange, stage by stage.                                              *)
(***************************************************************************)
\* What a run may find in its working directory: a checkout in which every
\* backend command succeeds, or one in which one command fails.
WorkingSvn ==
  [ svnDir : {TRUE}, fail : {"none"}, retcode : {0},
    status : {<<>>, <<"dir", "a.cc">>}, dirs : {{"dir"}},
    gitlines : {<<>>}, branch : {<<>>}, email : {"", "me@svn"} ]

FailingSvn ==
  [ svnDir : {TRUE},
    fail : {"svn info", "svn status", "svn diff", "svn email"},
    retcode : {1}, status : {<<"dir", "a.cc">>}, dirs : {{"dir"}},
    gitlines : {<<>>}, branch : {<<>>}, email : {"me@svn"} ]

GitDiffs ==
  { <<>>,
    << <<"i", "n", "d", "e", "x", "\n">>,
       <<"-", "-", "-", " ", "/dev/null", "\n">>,
       <<"+", "+", "+", " ", "new.cc", "\n">> >>,
    << <<"-", "-", "-", " ", "/dev/null", "\n">> >> }

Branches == {<<"refs/heads/", "w">>, <<"refs/remotes/", "o", "/", "w">>}

WorkingGit ==
  [ svnDir : {FALSE}, fail : {"none"}, retcode : {0},
    status : {<<>>}, dirs : {{}},
    gitlines : GitDiffs, branch : Branches, email : {"me@git"} ]

FailingGit ==
  [ svnDir : {FALSE},
    fail : {"git rev-parse --is-inside-work-tree",
            "git rev-parse --show-cdup", "git cl upstream", "git diff-tree",
            "git symbolic-ref", "git config"},
    retcode : {ENOENT, ENOENT + 126},
    status : {<<>>}, dirs : {{}},
    gitlines : {<<>>}, branch : {<<"refs/heads/", "w">>},
    email : {"me@git"} ]

SvnEnvs == WorkingSvn \cup FailingSvn

GitEnvs == WorkingGit \cup FailingGit

Envs == SvnEnvs \cup GitEnvs

\* What urllib.urlopen(url).read() and gclient_utils.FileRead return.
Contents == {<<>>, <<"patch">>}

\* What presubmit_support.DoGetTrySlaves returns.
TrySlaves == {<<>>, <<"win", "mac">>}

Exit(msg) == [kind |-> "SystemExit", msg |-> msg]

\* Lines 356-475: settings, parse_args, the choice of the transport.
TryChange_Parse ==
  /\ pc = "parse"
  /\ LET o == ParseArgs(argv, GetTryServerSettings(codereview, dns))
         sp == SwitchDefault(o.send_patch, o.host, o.port, o.svn_repo)
     IN  IF sp = "error"
           THEN /\ options' = o
                /\ exc' = Exit(<<"Please specify an access method.">>)
                /\ status' = "exit"
                /\ pc' = "done"
         ELSE IF NothingToTry(o)
           THEN /\ options' = [o EXCEPT !.send_patch = sp]
                /\ exc' = Exit(<<"Nothing to try, changelist is empty.">>)
                /\ status' = "exit"
                /\ pc' = "done"
         ELSE /\ options' = [o EXCEPT !.send_patch = sp]
              /\ exc' = exc
              /\ status' = status
              /\ pc' = "fetch"
  /\ UNCHANGED <<inputs, svn, scm, output, probe, ngenerated, slaves_called,
                 attempts, caller, requests, values>>

\* Lines 479-482: options.diff becomes the content of the diff.
TryChange_FetchDiff ==
  /\ pc = "fetch"
  /\ \/ /\ options.url # "" \/ options.diff # <<>>
        /\ \E content \in Contents :
             /\ options' = [options EXCEPT !.diff = content]
             /\ pc' = "guess"
             /\ exc' = exc
     \/ /\ options.url # "" \/ options.diff # <<>>
        /\ options' = options
        /\ exc' = OtherError("IOError")
        /\ pc' = "except"
     \/ /\ options.url = "" /\ options.diff = <<>>
        /\ options' = options
        /\ pc' = "guess"
        /\ exc' = exc
  /\ UNCHANGED <<inputs, svn, scm, status, output, probe, ngenerated,
                 slaves_called, attempts, caller, requests, values>>

\* Lines 484-490: options.scm = GuessVCS(options), a NoTryServerAccess
\* being dropped when there is a diff.
TryChange_GuessVCS ==
  /\ pc = "guess"
  /\ \E env \in Envs :
       LET r == GuessVCS(options, env)
       IN  /\ probe' = env
           /\ options' = r.options
           /\ ngenerated' = ngenerated + r.ngen
           /\ IF r.kind = "ok"
                THEN scm' = r.scm /\ exc' = exc /\ pc' = "bots"
              ELSE IF r.exc.kind = "NoTryServerAccess"
                        /\ r.options.diff # <<>>
                THEN scm' = scm /\ exc' = exc /\ pc' = "bots"
              ELSE scm' = scm /\ exc' = r.exc /\ pc' = "except"
  /\ UNCHANGED <<inputs, svn, status, output, slaves_called, attempts,
                 caller, requests, values>>

\* TryChange_GetTrySlaves asking for the try slaves without a source.
TryChange_GetTrySlaves_NoSource ==
  /\ pc = "bots"
  /\ IF options.bot # <<>>
       THEN UNCHANGED <<options, exc, slaves_called>> /\ pc' = "name"
     ELSE IF options.url # ""
       THEN /\ exc' = Exit(<<"You need to specify which bots to use.">>)
            /\ pc' = "except"
            /\ UNCHANGED <<options, slaves_called>>
     ELSE \E bots \in TrySlaves :
            /\ options' = [options EXCEPT !.bot = bots]
            /\ slaves_called' = TRUE
            /\ exc' = exc
            /\ pc' = "name"
  /\ UNCHANGED <<inputs, svn, scm, status, output, probe, ngenerated,
                 attempts, caller, requests, values>>

\* Lines 493-501: the try slaves, when --bot was not given.
TryChange_GetTrySlaves ==
  /\ pc = "bots"
  /\ IF options.bot # <<>>
       THEN UNCHANGED <<options, exc, slaves_called>> /\ pc' = "name"
     ELSE IF options.url # ""
       THEN /\ exc' = Exit(<<"You need to specify which bots to use.">>)
            /\ pc' = "except"
            /\ UNCHANGED <<options, slaves_called>>
     ELSE IF scm = "unset"
       THEN /\ exc' = OtherError("AttributeError")
            /\ pc' = "except"
            /\ UNCHANGED <<options, slaves_called>>
     ELSE \E bots \in TrySlaves :
            /\ options' = [options EXCEPT !.bot = bots]
            /\ slaves_called' = TRUE
            /\ exc' = exc
            /\ pc' = "name"
  /\ UNCHANGED <<inputs, svn, scm, status, output, probe, ngenerated,
                 attempts, caller, requests, values>>

\* 'Issue %s' % options.issue
IssueName(issue) == <<"I", "s", "s", "u", "e", " ", ToString(issue)>>

Unnamed == <<"U", "n", "n", "a", "m", "e", "d">>

\* Lines 503-507: the name of the job.
JobName(o) ==
  IF o.name = None
    THEN IF o.issue # 0 THEN IssueName(o.issue) ELSE Unnamed
    ELSE o.name

Printed(kind, text) == [kind |-> kind, text |-> text]

\* Lines 503-513.
TryChange_Name ==
  /\ pc = "name"
  /\ options' = [options EXCEPT !.name = JobName(options)]
  /\ output' =
       output
       \o (IF options.name = None /\ options.issue = 0
             THEN <<Printed("note", <<"Note: use --name NAME to change the try job name.">>)>>
             ELSE <<>>)
       \o (IF options.email = ""
             THEN <<Printed("warning", <<"Warning: TRYBOT_RESULTS_EMAIL_ADDRESS is not set.">>)>>
             ELSE <<Printed("results", <<"Results will be emailed to: ", options.email>>)>>)
  /\ pc' = "send"
  /\ UNCHANGED <<inputs, svn, scm, status, exc, probe, ngenerated,
                 slaves_called, attempts, caller, requests, values>>

\* TryChange_Send dispatching the transport that was not selected.
TryChange_Send_Other ==
  /\ pc = "send"
  /\ LET other == IF options.send_patch = "http" THEN "svn" ELSE "http"
     IN  /\ attempts' = Append(attempts, other)
         /\ pc' = other
  /\ caller' = "TryChange"
  /\ UNCHANGED <<inputs, svn, options, scm, status, exc, output, probe,
                 ngenerated, slaves_called, requests, values>>

\* Line 516: options.send_patch(options).
TryChange_Send ==
  /\ pc = "send"
  /\ attempts' = Append(attempts, options.send_patch)
  /\ caller' = "TryChange"
  /\ pc' = options.send_patch
  /\ UNCHANGED <<inputs, svn, options, scm, status, exc, output, probe,
                 ngenerated, slaves_called, requests, values>>

\* Lines 517-518 and 524.
TryChange_Sent ==
  /\ pc = "sent"
  /\ output' = Append(output,
                      Printed("sent", <<options.name, Join(options.bot)>>))
  /\ status' = "return0"
  /\ pc' = "done"
  /\ UNCHANGED <<inputs, svn, options, scm, exc, probe, ngenerated,
                 slaves_called, attempts, caller, requests, values>>

\* HandlerOutput without the early return of lines 520-521.
HandlerOutput_Always(e, swallow) == <<Printed("error", ExcStr(e))>>

\* What the handler of lines 519-523 prints for a classified error.
HandlerOutput(e, swallow) ==
  IF swallow THEN <<>> ELSE <<Printed("error", ExcStr(e))>>

\* The status a classified error ends the run with.
HandlerStatus(e, swallow) == "return1"

\* Lines 519-523; an exception the clause does not name leaves TryChange.
TryChange_Except ==
  /\ pc = "except"
  /\ IF exc.kind \in Classified
       THEN /\ output' = output \o HandlerOutput(exc, swallow_exception)
            /\ status' = HandlerStatus(exc, swallow_exception)
       ELSE /\ output' = output
            /\ status' = IF exc.kind = "SystemExit" THEN "exit" ELSE "escaped"
  /\ pc' = "done"
  /\ UNCHANGED <<inputs, svn, options, scm, exc, probe, ngenerated,
                 slaves_called, attempts, caller, requests, values>>

\* Where a transport returns to, and where its exception goes.
ReturnPc == IF caller = "TryChange" THEN "sent" ELSE "returned"

RaisePc == IF caller = "TryChange" THEN "except" ELSE "raised"

(***************************************************************************)
(* _SendChangeHTTP (lines 218-250).                                        *)
(***************************************************************************)
\* What urllib.urlopen does: it raises IOError (io is its reason), or
\* returns a connection, which may be false, whose read() returns body.
HttpOutcomes ==
  [io : {"ok"}, connection : {TRUE}, body : {"OK", "OK\n", "O", ""}]
    \cup [io : {"ok"}, connection : {FALSE}, body : {""}]
    \cup [io : {"got a bad status line", "socket error"},
          connection : {FALSE}, body : {""}]

Url(o) == "http://" \o o.host \o ":" \o o.port \o "/send_try_patch"

\* values['patch'] = options.diff
WithPatch(vals, diff) ==
  [k \in DOMAIN vals \cup {"patch"} |->
     IF k = "patch" THEN diff ELSE vals[k]]

\* ResponseOK with the body stripped of its trailing newline.
ResponseOK_Stripped(body) == body \in {"OK", "OK\n"}

\* Line 249: the test of the response body.
ResponseOK(body) == body = "OK"

\* Lines 238-250: the exception the request ends with, NoExc for none.
HttpResult(o, vals, outcome) ==
  IF outcome.io # "ok"
    THEN IF "bot" \in DOMAIN vals /\ vals["bot"] # ""
              /\ outcome.io = "got a bad status line"
           THEN NoTryServerAccess(<<Url(o), " is unaccessible. Bad --bot argument?">>)
           ELSE NoTryServerAccess(<<Url(o), " is unaccessible. Reason: ", outcome.io>>)
  ELSE IF ~outcome.connection
    THEN NoTryServerAccess(<<Url(o), " is unaccessible.">>)
  ELSE IF ~ResponseOK(outcome.body)
    THEN NoTryServerAccess(<<Url(o), " is unaccessible.">>)
  ELSE NoExc

\* SendChangeHTTP without the tests of lines 220-225.
SendChangeHTTP_Unchecked ==
  /\ pc = "http"
  /\ \E outcome \in HttpOutcomes :
       LET v == WithPatch(ParseSendChangeOptions(options), options.diff)
           e == HttpResult(options, v, outcome)
       IN  /\ values' = v
           /\ requests' = Append(requests,
                                 [url |-> Url(options), values |-> v,
                                  outcome |-> outcome])
           /\ exc' = e
           /\ pc' = IF e = NoExc THEN ReturnPc ELSE RaisePc
  /\ UNCHANGED <<inputs, run, svn, caller>>

SendChangeHTTP ==
  /\ pc = "http"
  /\ IF options.host = ""
       THEN /\ exc' = NoTryServerAccess(<<"Please use the --host option">>)
            /\ pc' = RaisePc
            /\ UNCHANGED <<requests, values>>
     ELSE IF options.port = ""
       THEN /\ exc' = NoTryServerAccess(<<"Please use the --port option">>)
            /\ pc' = RaisePc
            /\ UNCHANGED <<requests, values>>
     ELSE \E outcome \in HttpOutcomes :
            LET v == WithPatch(ParseSendChangeOptions(options), options.diff)
                e == HttpResult(options, v, outcome)
            IN  /\ values' = v
                /\ requests' = Append(requests,
                                      [url |-> Url(options), values |-> v,
                                       outcome |-> outcome])
                /\ exc' = e
                /\ pc' = IF e = NoExc THEN ReturnPc ELSE RaisePc
  /\ UNCHANGED <<inputs, run, svn, caller>>

(***************************************************************************)
(* _SendChangeSVN (lines 253-311), command by command.                     *)
(***************************************************************************)
Times == (0..MaxSec) \X (0..MaxUsec)

\* The clock does not run backwards.
NotBefore(t, u) == t[1] > u[1] \/ (t[1] = u[1] /\ t[2] >= u[2])

\* CurrentTime to the second.
CurrentTime_Seconds(t) == <<"2009-01-01 12.00.", ToString(t[1])>>

\* str(datetime.datetime.now()).replace(':', '.'): the microseconds are
\* printed unless they are 0.
CurrentTime(t) ==
  <<"2009-01-01 12.00.", ToString(t[1])>>
    \o (IF t[2] = 0 THEN <<>> ELSE <<".", ToString(t[2])>>)

\* Lines 278-279.
FileName(user, name, t) ==
  EscapeDot(user) \o <<".">> \o EscapeDot(name) \o <<".">>
    \o CurrentTime(t) \o <<".diff">>

\* Lines 270-273.
CheckoutCommand(o) ==
  <<"svn", "checkout", "--depth", "empty", "-q", o.svn_repo, "temp_dir">>
    \o (IF o.email # "" THEN <<"--username", o.email>> ELSE <<>>)

\* Wrap without the captured output.
Wrap_CommandOnly(e) == NoTryServerAccess(<<JoinWith(e.command, " ")>>)

\* Lines 306-308: a CheckCallError becomes a NoTryServerAccess.
Wrap(e) ==
  NoTryServerAccess(<<JoinWith(e.command, " "), "\nOuput:\n", e.stdout>>)

\* An entry of cmdlog: a command that was run, and the error it raised.
Ran(cmd, error) == [cmd |-> cmd, error |-> error]

\* The record `calls` keeps of a call that ended.
Call(o, result, store) ==
  [user |-> o.user, name |-> o.name, diff |-> o.diff, time |-> now,
   file |-> file_name, found |-> file_found, log |-> cmdlog,
   result |-> result, objects |-> Cardinality(DOMAIN store)]

\* Lines 256-267: the check of svn_repo, the temporary directory and file.
\* tempfile.mkdtemp() may raise, and so may tempfile.NamedTemporaryFile().
SendChangeSVN_Begin ==
  /\ pc = "svn"
  /\ cmdlog' = <<>>
  /\ file_name' = <<>>
  /\ file_found' = FALSE
  /\ values' = IF options.svn_repo = "" THEN values
               ELSE ParseSendChangeOptions(options)
  /\ IF options.svn_repo = ""
       THEN /\ exc' = NoTryServerAccess(<<"Please use the --svn_repo option">>)
            /\ pc' = RaisePc
            /\ UNCHANGED <<temp_dir, temp_file>>
       ELSE \/ /\ temp_dir' = temp_dir + 1
               /\ temp_file' = temp_file + 1
               /\ exc' = exc
               /\ pc' = "svn_checkout"
            \/ /\ exc' = OtherError("OSError")
               /\ pc' = RaisePc
               /\ UNCHANGED <<temp_dir, temp_file>>
            \/ /\ temp_dir' = temp_dir + 1
               /\ temp_file' = temp_file
               /\ exc' = OtherError("OSError")
               /\ pc' = RaisePc
  /\ calls' = IF pc' = "svn_checkout" THEN calls
              ELSE Append(calls, [Call(options, "raised", remote) EXCEPT
                                    !.file = <<>>, !.found = FALSE,
                                    !.log = <<>>])
  /\ UNCHANGED <<inputs, run, caller, requests, now, remote>>

\* CheckCall going on to the next command after a failure.
CheckCall_Continue(cmd, command, failed, next) ==
  /\ cmdlog' = Append(cmdlog,
                      Ran(cmd, IF failed THEN CheckCallError(command, 1)
                               ELSE NoExc))
  /\ exc' = exc
  /\ pc' = next

\* A CheckCall of the try block: the command is logged; when it fails the
\* CheckCallError is wrapped (lines 306-308) and control is in `finally`.
CheckCall(cmd, command, failed, next) ==
  IF failed
    THEN /\ cmdlog' = Append(cmdlog, Ran(cmd, CheckCallError(command, 1)))
         /\ exc' = Wrap(CheckCallError(command, 1))
         /\ pc' = "svn_finally"
    ELSE /\ cmdlog' = Append(cmdlog, Ran(cmd, NoExc))
         /\ exc' = exc
         /\ pc' = next

\* Lines 270-274.
SendChangeSVN_Checkout ==
  /\ pc = "svn_checkout"
  /\ \E failed \in BOOLEAN :
       CheckCall("checkout", CheckoutCommand(options), failed, "svn_ls")
  /\ UNCHANGED <<inputs, run, caller, requests, values, temp_dir, temp_file,
                 now, file_name, file_found, remote, calls>>

\* Lines 277-287: the file name, and whether svn ls finds it.  svn ls
\* fails when the file is not in the repository, and may fail when it is;
\* its CheckCallError is dropped (lines 286-287).
SendChangeSVN_Ls ==
  /\ pc = "svn_ls"
  /\ file_name' = FileName(options.user, options.name, now)
  /\ \E answers \in BOOLEAN :
       file_found' = (answers /\ file_name' \in DOMAIN remote)
  /\ cmdlog' = Append(cmdlog,
                      Ran("ls", IF file_found' THEN NoExc
                                ELSE CheckCallError(<<"svn", "ls", "full_url">>, 1)))
  /\ pc' = IF file_found' THEN "svn_update" ELSE "svn_write"
  /\ UNCHANGED <<inputs, run, caller, requests, values, exc, temp_dir,
                 temp_file, now, remote, calls>>

\* Line 292.
SendChangeSVN_Update ==
  /\ pc = "svn_update"
  /\ \E failed \in BOOLEAN :
       CheckCall("update", <<"svn", "update", "full_path">>, failed,
                 "svn_write")
  /\ UNCHANGED <<inputs, run, caller, requests, values, temp_dir, temp_file,
                 now, file_name, file_found, remote, calls>>

\* Lines 293-295 and 298-300: the diff is written to the file; open() and
\* write() may raise IOError, which the except clause does not catch.
SendChangeSVN_Write ==
  /\ pc = "svn_write"
  /\ \/ /\ cmdlog' = Append(cmdlog, Ran("write", NoExc))
        /\ exc' = exc
        /\ pc' = IF file_found THEN "svn_commit" ELSE "svn_add"
     \/ /\ cmdlog' = Append(cmdlog, Ran("write", OtherError("IOError")))
        /\ exc' = OtherError("IOError")
        /\ pc' = "svn_finally"
  /\ UNCHANGED <<inputs, run, caller, requests, values, temp_dir, temp_file,
                 now, file_name, file_found, remote, calls>>

\* Line 301.
SendChangeSVN_Add ==
  /\ pc = "svn_add"
  /\ \E failed \in BOOLEAN :
       CheckCall("add", <<"svn", "add", "full_path">>, failed, "svn_commit")
  /\ UNCHANGED <<inputs, run, caller, requests, values, temp_dir, temp_file,
                 now, file_name, file_found, remote, calls>>

\* The repository after a commit of file f with content d.
Committed(store, f, d) ==
  [g \in DOMAIN store \cup {f} |-> IF g = f THEN d ELSE store[g]]

\* Lines 302-305.  The commit of an added file fails when the repository
\* already holds a file of that name; writing the message to the temporary
\* file may raise IOError before svn commit is run.
SendChangeSVN_Commit ==
  /\ pc = "svn_commit"
  /\ \/ /\ file_found \/ file_name \notin DOMAIN remote
        /\ CheckCall("commit", <<"svn", "commit", "full_path", "--file",
                                 "temp_file">>, FALSE, "svn_finally")
        /\ remote' = Committed(remote, file_name, options.diff)
     \/ /\ CheckCall("commit", <<"svn", "commit", "full_path", "--file",
                                 "temp_file">>, TRUE, "svn_finally")
        /\ remote' = remote
     \/ /\ cmdlog' = Append(cmdlog, Ran("write message", OtherError("IOError")))
        /\ exc' = OtherError("IOError")
        /\ pc' = "svn_finally"
        /\ remote' = remote
  /\ UNCHANGED <<inputs, run, caller, requests, values, temp_dir, temp_file,
                 now, file_name, file_found, calls>>

\* Lines 309-311, and the return or the raise that follows.
SendChangeSVN_Finally ==
  /\ pc = "svn_finally"
  /\ temp_file' = temp_file - 1
  /\ temp_dir' = temp_dir - 1
  /\ calls' = Append(calls,
                     Call(options, IF exc = NoExc THEN "returned" ELSE "raised",
                          remote))
  /\ pc' = IF exc = NoExc THEN ReturnPc ELSE RaisePc
  /\ UNCHANGED <<inputs, run, caller, requests, values, exc, now, file_name,
                 file_found, cmdlog, remote>>

\* _SendChangeSVN is called again, for the same user and job, when the
\* call before it has ended; the clock does not run backwards.
DirectDiffs == {<<"D1">>, <<"D2">>}

DirectCall ==
  /\ pc \in {"returned", "raised"}
  /\ Len(calls) < MaxCalls
  /\ \E d \in DirectDiffs, t \in Times :
       /\ NotBefore(t, now)
       /\ now' = t
       /\ options' = [options EXCEPT !.diff = d]
  /\ exc' = NoExc
  /\ cmdlog' = <<>>
  /\ file_name' = <<>>
  /\ file_found' = FALSE
  /\ pc' = "svn"
  /\ UNCHANGED <<inputs, scm, status, output, probe, ngenerated,
                 slaves_called, attempts, caller, requests, values, temp_dir,
                 temp_file, remote, calls>>

\* _ParseSendChangeOptions called on its own.
ParseSendChangeOptions_Call ==
  /\ pc = "payload"
  /\ values' = ParseSendChangeOptions(options)
  /\ pc' = "returned"
  /\ UNCHANGED <<inputs, run, svn, caller, exc, requests>>

(***************************************************************************)
(* A run of TryChange.                                                     *)
(***************************************************************************)
CodeReview(host, port, url) ==
  [ TRYSERVER_HTTP_HOST |-> host, TRYSERVER_HTTP_PORT |-> port,
    TRYSERVER_SVN_URL |-> url, TRYSERVER_PROJECT |-> "",
    TRYSERVER_ROOT |-> "", TRYSERVER_PATCHLEVEL |-> 0 ]

\* A command line with no option on it.
NoArgv ==
  [ use |-> "none", host |-> NotGiven, port |-> NotGiven,
    svn_repo |-> NotGiven, user |-> None, email |-> "", name |-> None,
    issue |-> 0, patchset |-> 0, bot |-> <<>>, revision |-> "",
    clobber |-> FALSE, target |-> "", project |-> NotGiven, tests |-> <<>>,
    files |-> <<>>, diff |-> <<>>, url |-> "", root |-> NotGiven,
    patchlevel |-> -1, proxy |-> "" ]

\* The options before parse_args has run.
NoOptions == ParseArgs(NoArgv, GetTryServerSettings(CodeReview("", "", ""), {}))

NoProbe == [svnDir |-> FALSE, fail |-> "not probed"]

NoFiles == [f \in {} |-> <<>>]

\* A repository that already holds the files of these names.
Holding(names) == [f \in names |-> <<"old">>]

\* The command lines of the runs: the transport is left to the settings.
Argvs ==
  { [NoArgv EXCEPT !.user = user, !.name = name, !.issue = issue[1],
                   !.patchset = issue[2], !.bot = bot, !.diff = diff[1],
                   !.url = diff[2]] :
      user \in {None, <<>>},
      name \in {None, <<>>, <<"j", ".", "x">>},
      issue \in {<<0, 0>>, <<0, 1>>, <<1, 1>>},
      bot \in {<<>>, <<"win">>},
      diff \in {<<<<>>, "">>, <<<<"f.diff">>, "">>, <<<<>>, "http://u">>} }

\* The command lines that choose the transport, and its parameters.
TransportArgvs ==
  { [NoArgv EXCEPT !.use = use, !.host = host, !.port = port,
                   !.svn_repo = repo, !.email = email] :
      use \in {"none", "http", "svn"},
      host \in {NotGiven, "other.example"},
      port \in {NotGiven, "80"},
      repo \in {NotGiven, "svn://other"},
      email \in {"", "me@example"} }

InitLocals ==
  /\ scm = "unset"
  /\ status = "running"
  /\ exc = NoExc
  /\ output = <<>>
  /\ probe = NoProbe
  /\ ngenerated = 0
  /\ slaves_called = FALSE
  /\ attempts = <<>>
  /\ requests = <<>>
  /\ values = NoFiles
  /\ temp_dir = 0
  /\ temp_file = 0
  /\ now = <<0, 0>>
  /\ file_name = <<>>
  /\ file_found = FALSE
  /\ cmdlog = <<>>
  /\ calls = <<>>

InitRun ==
  /\ options = NoOptions
  /\ pc = "parse"
  /\ caller = "TryChange"
  /\ InitLocals

\* The repository holds one file, of the name a run of the default user
\* with the default job name computes.
InitRemote == remote = Holding({FileName(getuser, Unnamed, <<0, 0>>)})

Init ==
  /\ \E cr \in { <<"", "", "">>, <<"try.example", "8018", "">>,
                 <<"", "", "svn://try">> } :
       codereview = CodeReview(cr[1], cr[2], cr[3])
  /\ dns = {"try.example"}
  /\ argv \in Argvs
  /\ swallow_exception \in BOOLEAN
  /\ InitRemote
  /\ InitRun

InitTransport ==
  /\ \E host \in {"", "try.example"}, port \in {"", "8018"},
        url \in {"", "svn://try"} :
       codereview = CodeReview(host, port, url)
  /\ dns \in {{}, {"try.example"}}
  /\ argv \in TransportArgvs
  /\ swallow_exception = FALSE
  /\ InitRemote
  /\ InitRun

Next ==
  \/ TryChange_Parse
  \/ TryChange_FetchDiff
  \/ TryChange_GuessVCS
  \/ TryChange_GetTrySlaves
  \/ TryChange_Name
  \/ TryChange_Send
  \/ SendChangeHTTP
  \/ SendChangeSVN_Begin
  \/ SendChangeSVN_Checkout
  \/ SendChangeSVN_Ls
  \/ SendChangeSVN_Update
  \/ SendChangeSVN_Write
  \/ SendChangeSVN_Add
  \/ SendChangeSVN_Commit
  \/ SendChangeSVN_Finally
  \/ TryChange_Sent
  \/ TryChange_Except

Spec == Init /\ [][Next]_vars

SpecTransport == InitTransport /\ [][Next]_vars

(***************************************************************************)
(* _SendChangeSVN called directly, several times over.                     *)
(***************************************************************************)
DirectOptions ==
  { [NoOptions EXCEPT !.user = user, !.name = <<"j">>, !.diff = diff,
                      !.svn_repo = repo, !.email = email,
                      !.send_patch = "svn"] :
      user \in {<<"a", ".", "b">>, <<"a", "-", "b">>},
      diff \in DirectDiffs,
      repo \in {"", "svn://try"},
      email \in {"", "me@example"} }

InitInputs ==
  /\ codereview = CodeReview("", "", "")
  /\ dns = {}
  /\ argv = NoArgv
  /\ swallow_exception = FALSE

InitSVN ==
  /\ InitInputs
  /\ options \in DirectOptions
  /\ pc = "svn"
  /\ caller = "direct"
  /\ remote = NoFiles
  /\ InitLocals

NextSVN ==
  \/ SendChangeSVN_Begin
  \/ SendChangeSVN_Checkout
  \/ SendChangeSVN_Ls
  \/ SendChangeSVN_Update
  \/ SendChangeSVN_Write
  \/ SendChangeSVN_Add
  \/ SendChangeSVN_Commit
  \/ SendChangeSVN_Finally
  \/ DirectCall

SpecSVN == InitSVN /\ [][NextSVN]_vars

(***************************************************************************)
(* _ParseSendChangeOptions on every combination of set and unset fields.   *)
(***************************************************************************)
PayloadOptions ==
  { [NoOptions EXCEPT !.user = f[1], !.name = f[2], !.email = f[3],
                      !.bot = f[4], !.revision = f[5], !.clobber = f[6],
                      !.tests = f[7], !.root = f[8], !.patchlevel = f[9],
                      !.issue = f[10], !.patchset = f[11], !.target = f[12],
                      !.project = f[13]] :
      f \in {<<>>, <<"u">>} \X {<<>>, <<"j">>} \X {"", "me@example"}
             \X {<<>>, <<"win", "mac">>} \X {"", "123"} \X BOOLEAN
             \X {<<>>, <<"t1">>} \X {"", "src"} \X {0, 1} \X {0, 1}
             \X {0, 1} \X {"", "release"} \X {"", "chrome"} }

InitPayload ==
  /\ InitInputs
  /\ options \in PayloadOptions
  /\ pc = "payload"
  /\ caller = "direct"
  /\ remote = NoFiles
  /\ InitLocals

NextPayload == ParseSendChangeOptions_Call

SpecPayload == InitPayload /\ [][NextPayload]_vars

(***************************************************************************)
(* The properties.                                                         *)
(***************************************************************************)
Forced == argv.use # "none"

Parsed == pc # "parse"

HttpEnded == attempts = <<"http">> /\ pc \in {"sent", "except", "done"}

\* The request was answered, with a body that is exactly OK.
Accepted(r) ==
  r.outcome.io = "ok" /\ r.outcome.connection /\ r.outcome.body = "OK"

\* C2: _SendChangeHTTP returns normally if and only if the request was
\* made and answered with the body 'OK'; in every other case it raises
\* NoTryServerAccess.
C2_OnlyExactOK ==
  HttpEnded =>
    /\ (exc = NoExc) <=>
         (requests # <<>> /\ Accepted(requests[Len(requests)]))
    /\ (exc # NoExc) => exc.kind = "NoTryServerAccess"
    /\ (pc = "sent" \/ status = "return0") <=> (exc = NoExc)

\* C2: a request answered 'OK\n' has raised NoTryServerAccess.
C2_Witness ==
  /\ HttpEnded
  /\ requests # <<>>
  /\ requests[Len(requests)].outcome.body = "OK\n"
  /\ exc.kind = "NoTryServerAccess"

\* The call of _SendChangeSVN has ended.
SvnEnded ==
  \/ caller = "direct" /\ pc \in {"returned", "raised"}
  \/ caller = "TryChange" /\ attempts = <<"svn">>
       /\ pc \in {"sent", "except", "done"}

\* C3: once _SendChangeSVN has returned or raised, the temporary directory
\* and the temporary file it created no longer exist.
C3_TemporariesRemoved == SvnEnded => (temp_dir = 0 /\ temp_file = 0)

\* The i-th command of the call failed.
Failed(i) == cmdlog[i].error.kind = "CheckCallError"

\* The error that carries a failed command and its output.
Carrying(e) ==
  [kind |-> "NoTryServerAccess",
   msg |-> <<JoinWith(e.command, " "), "\nOuput:\n", e.stdout>>]

\* C4, as stated: the failure of any svn command of the sequence makes the
\* delivery raise NoTryServerAccess carrying that command and its output.
C4_EveryFailureRaises ==
  \A i \in 1..Len(cmdlog) : Failed(i) => exc = Carrying(cmdlog[i].error)

\* C4, amended: the failure of svn checkout, update, add or commit ends the
\* sequence and makes the delivery raise NoTryServerAccess carrying that
\* command and its output; the failure of svn ls is not raised: the file
\* counts as not found and the delivery goes on by adding it.  No
\* CheckCallError leaves the delivery.
C4_FailureRaisesExceptLs ==
  /\ \A i \in 1..Len(cmdlog) :
       Failed(i) =>
         IF cmdlog[i].cmd = "ls"
           THEN /\ ~file_found
                /\ exc # Carrying(cmdlog[i].error)
           ELSE /\ i = Len(cmdlog)
                /\ exc = Carrying(cmdlog[i].error)
                /\ pc \in {"svn_finally", "raised", "except", "done"}
  /\ pc \in {"svn_finally", "raised", "returned", "sent", "except"} =>
       exc.kind # "CheckCallError"

\* C4: a delivery in which svn ls failed and svn commit failed later has
\* raised NoTryServerAccess for the commit.
C4_Witness ==
  /\ pc = "raised"
  /\ \E i, j \in 1..Len(cmdlog) :
       /\ i < j
       /\ cmdlog[i].cmd = "ls" /\ Failed(i)
       /\ cmdlog[j].cmd = "commit" /\ Failed(j)
  /\ exc.kind = "NoTryServerAccess"

\* Two calls for the same user, job name and diff content, both committed.
Resubmitted(i, j) ==
  /\ i < j
  /\ calls[i].result = "returned" /\ calls[j].result = "returned"
  /\ calls[i].user = calls[j].user
  /\ calls[i].name = calls[j].name
  /\ calls[i].diff = calls[j].diff

\* C5, as stated: two calls with the same user, job name and diff whose
\* timestamps fall in the same second leave one object in the repository:
\* the second finds the file, updates it and adds no object.
C5_SameSecondOneObject ==
  \A i, j \in 1..Len(calls) :
    (Resubmitted(i, j) /\ calls[i].time[1] = calls[j].time[1]) =>
      /\ calls[j].file = calls[i].file
      /\ calls[j].found
      /\ calls[j].objects = calls[i].objects

\* C5, amended: two calls with the same user, job name and diff leave one
\* object in the repository when their timestamps are equal to the
\* microsecond: the second finds the file, updates it and adds no object;
\* when the timestamps differ, be it in the microseconds of the same
\* second, the second call commits a file of another name.
C5_SameTimestampOneObject ==
  \A i, j \in 1..Len(calls) :
    Resubmitted(i, j) =>
      IF calls[i].time = calls[j].time
        THEN /\ calls[j].file = calls[i].file
             /\ calls[j].found
             /\ \E k \in 1..Len(calls[j].log) : calls[j].log[k].cmd = "update"
             /\ \A k \in 1..Len(calls[j].log) : calls[j].log[k].cmd # "add"
             /\ calls[j].objects = calls[i].objects
        ELSE /\ calls[j].file # calls[i].file
             /\ calls[j].objects > calls[i].objects

\* C5: two committed calls of one timestamp, the second of which found the
\* file and left the repository with one object.
C5_Witness ==
  /\ Len(calls) = 2
  /\ Resubmitted(1, 2)
  /\ calls[1].time = calls[2].time
  /\ calls[2].found
  /\ calls[2].objects = 1

\* C6: no run ends with an exception other than InvalidScript and
\* NoTryServerAccess leaving TryChange.
C6_NoUnclassifiedEscape == status # "escaped"

LastOutput == output[Len(output)]

\* The run's delivery succeeded.
Delivered ==
  /\ Len(attempts) = 1
  /\ exc = NoExc
  /\ attempts[1] = "http" =>
       (requests # <<>> /\ Accepted(requests[Len(requests)]))
  /\ attempts[1] = "svn" =>
       (calls # <<>> /\ calls[Len(calls)].result = "returned"
          /\ calls[Len(calls)].file \in DOMAIN remote)

\* C7, as stated: a run that ends in a classified error has printed the
\* message followed by the hint and returns the failure status; a run
\* returns the success status only after the delivery succeeded.
C7_ErrorPrinted ==
  /\ (pc = "done" /\ exc.kind \in Classified) =>
       /\ status = "return1"
       /\ output # <<>>
       /\ LastOutput.kind = "error"
       /\ LastOutput.text = <<exc.msg, "\n", HELP_STRING>>
  /\ status = "return0" => Delivered

\* C7, amended: a run that ends in a classified error returns the failure
\* status; it has printed the message followed by the hint when
\* swallow_exception is false, and has printed no error when it is true; a
\* run returns the success status only after the delivery succeeded.
C7_ErrorPrintedUnlessSwallowed ==
  /\ (pc = "done" /\ exc.kind \in Classified) =>
       /\ status = "return1"
       /\ IF swallow_exception
            THEN \A i \in 1..Len(output) : output[i].kind # "error"
            ELSE /\ output # <<>>
                 /\ LastOutput.kind = "error"
                 /\ LastOutput.text = <<exc.msg, "\n", HELP_STRING>>
  /\ status = "return1" => exc.kind \in Classified
  /\ status = "return0" => Delivered

\* C7: a swallowed error, returned as a failure with nothing printed for it.
C7_Witness ==
  /\ pc = "done"
  /\ swallow_exception
  /\ exc.kind = "NoTryServerAccess"
  /\ status = "return1"
  /\ attempts # <<>>

\* C8: a classified error is raised to the caller when swallow_exception is
\* false, and swallowed, the failure status being returned, when it is
\* true.
C8_RaisedUnlessSwallowed ==
  (pc = "done" /\ exc.kind \in Classified) =>
    IF swallow_exception THEN status = "return1" ELSE status = "raised"

\* Whether the source value of a payload field is set (true in Python).
FieldSet(o, k) ==
  CASE k \in {"user", "name"} -> Truthy(o[k])
    [] k \in {"bot", "tests"} -> o[k] # <<>>
    [] k = "clobber" -> o.clobber
    [] k \in {"patchlevel", "issue", "patchset"} -> o[k] # 0
    [] OTHER -> o[k] # ""

OptionalFields ==
  {"email", "bot", "revision", "clobber", "tests", "root", "patchlevel",
   "issue", "patchset", "target", "project"}

\* C9, as stated: a field is a key of the payload if and only if its
\* source value is set.
C9_KeyIffSet ==
  pc = "returned" =>
    \A k \in OptionalFields \cup {"user", "name"} :
      k \in DOMAIN values <=> FieldSet(options, k)

\* C9, amended: each of the eleven optional fields is a key of the payload
\* if and only if its source value is set; user and name are keys of every
\* payload, also when their values are empty; there is no other key.
C9_OptionalKeyIffSet ==
  pc = "returned" =>
    /\ \A k \in OptionalFields : k \in DOMAIN values <=> FieldSet(options, k)
    /\ {"user", "name"} \subseteq DOMAIN values
    /\ DOMAIN values \subseteq OptionalFields \cup {"user", "name"}
    /\ values["user"] = options.user
    /\ values["name"] = options.name

\* C9: a payload with an empty user as a key, no patchlevel 0, and a bot.
C9_Witness ==
  /\ pc = "returned"
  /\ options.user = <<>>
  /\ "user" \in DOMAIN values
  /\ options.patchlevel = 0
  /\ "patchlevel" \notin DOMAIN values
  /\ "bot" \in DOMAIN values

\* C10: when the transport is invoked, the user and the job name are both
\* non-empty.
C10_UserAndNamePresent ==
  attempts # <<>> => (Truthy(options.user) /\ Truthy(options.name))

\* GuessVCS has run, and what it returned or raised is still in hand.
GuessEnded ==
  /\ probe.fail # "not probed"
  /\ \/ pc = "bots"
     \/ /\ pc = "except"
        /\ attempts = <<>>
        /\ exc.kind \notin {"SystemExit", "AttributeError"}

GitProbeFailed == probe.fail = "git rev-parse --is-inside-work-tree"

\* C11: GuessVCS decides in a fixed order.  With a .svn directory the
\* result is the Subversion source, never the Git source and never 'could
\* not guess', whatever git would answer; without it, a git probe that
\* succeeds gives the Git source (when its constructor completes); a git
\* probe that fails with ENOENT counts as not detected, which raises
\* NoTryServerAccess; a probe that fails with another code propagates.
C11_FixedOrder ==
  GuessEnded =>
    /\ probe.svnDir =>
         /\ scm # "GIT"
         /\ exc # CouldNotGuess
         /\ probe.fail = "none" => (scm = "SVN" /\ pc = "bots")
    /\ (~probe.svnDir /\ scm # "unset") => (scm = "GIT" /\ ~GitProbeFailed)
    /\ ( /\ ~probe.svnDir
         /\ probe.fail = "none"
         /\ Truthy(argv.name) \/ OnBranch(probe.branch)
         /\ ~(ngenerated = 1 /\ RewriteFails(probe.gitlines)) ) =>
         (scm = "GIT" /\ pc = "bots")
    /\ (~probe.svnDir /\ GitProbeFailed /\ probe.retcode = ENOENT) =>
         /\ scm = "unset"
         /\ IF options.diff = <<>>
              THEN pc = "except" /\ exc = CouldNotGuess
              ELSE pc = "bots"
    /\ (~probe.svnDir /\ GitProbeFailed /\ probe.retcode # ENOENT) =>
         /\ scm = "unset"
         /\ pc = "except"
         /\ exc = CheckCallError(<<"git", "rev-parse">>, probe.retcode)

\* C11: a directory with .svn, in which every git command would succeed
\* too, gave the Subversion source.
C11_Witness ==
  /\ GuessEnded
  /\ probe.svnDir
  /\ probe.fail = "none"
  /\ scm = "SVN"

\* A command of the SVN or GIT constructor was run and failed.
BackendFailure ==
  \/ probe.fail \in {"svn info", "git rev-parse --show-cdup"}
  \/ /\ probe.fail \in {"svn status", "svn diff", "git cl upstream",
                        "git diff-tree"}
     /\ ngenerated = 1
  \/ probe.fail = "git symbolic-ref" /\ ~Truthy(argv.name)
  \/ probe.fail \in {"svn email", "git config"} /\ argv.email = ""

\* C12: whenever a backend command run by the SVN or GIT source fails, the
\* failure reaches the caller of GuessVCS as a CheckCallError carrying the
\* exit code, the command line and the output; it is never turned into
\* another outcome such as 'could not guess version control system'.
C12_BackendFailurePropagates ==
  (GuessEnded /\ BackendFailure) =>
    /\ pc = "except"
    /\ exc.kind = "CheckCallError"
    /\ exc.retcode = probe.retcode
    /\ exc.command[1] \in {"svn", "git"}

\* C13: DoGetTrySlaves is invoked only in a run whose caller named no bot,
\* and only after GuessVCS returned a source; it is never invoked in a run
\* where detection produced no source.
C13_SlavesOnlyWithSource ==
  /\ slaves_called =>
       /\ argv.bot = <<>>
       /\ scm \in {"SVN", "GIT"}
       /\ probe.fail # "not probed"
       /\ pc \notin {"parse", "fetch", "guess", "bots"}
  /\ scm = "unset" => ~slaves_called

\* C13: a run without --bot, in a checkout, has asked for the try slaves;
\* and detection had been given a diff by the caller.
C13_Witness ==
  /\ slaves_called
  /\ argv.bot = <<>>
  /\ argv.diff # <<>>
  /\ scm = "GIT"

\* A git checkout in which every command succeeds and HEAD is not on a
\* named branch; the diff, if one was generated, went through the rewrite.
Detached ==
  /\ probe.fail = "none"
  /\ ~probe.svnDir
  /\ ~OnBranch(probe.branch)
  /\ ~(ngenerated = 1 /\ RewriteFails(probe.gitlines))

\* C14: in a git checkout with a detached HEAD, every run whose caller
\* supplied no job name fails with the NoTryServerAccess about the branch
\* name, and makes no delivery attempt.
C14_DetachedRunFails ==
  (Detached /\ argv.name = None) =>
    /\ attempts = <<>>
    /\ \/ pc = "except"
          /\ exc = NoTryServerAccess(<<"Couldn't figure out branch name">>)
       \/ pc = "done"
          /\ exc = NoTryServerAccess(<<"Couldn't figure out branch name">>)
          /\ status = "return1"

\* C15: in every run where the caller passes --svn_repo and does not pass
\* --use_http, the transport selected and invoked is SVN, whatever the
\* default transport of the settings is.
C15_SvnRepoImpliesSvn ==
  (Parsed /\ argv.svn_repo # NotGiven /\ argv.use # "http") =>
    /\ options.send_patch = "svn"
    /\ attempts \in {<<>>, <<"svn">>}

\* The lines of a diff, each '--- /dev/null' header carrying the path (and
\* the rest) of the line that follows it.
Headed(lines) ==
  [i \in 1..Len(lines) |->
     IF lines[i][5] = "/dev/null" /\ SubSeq(lines[i], 1, 4) = <<"-", "-", "-", " ">>
       THEN SubSeq(lines[i], 1, 4) \o Tail(Tail(Tail(Tail(lines[i + 1]))))
       ELSE lines[i]]

\* GIT._GenerateDiff has run on the lines git diff-tree printed.
GitGenerated ==
  /\ GuessEnded
  /\ ~probe.svnDir
  /\ probe.fail = "none"
  /\ ngenerated = 1

\* C16: for every diff git generates, a null-device header on the last
\* line included, _GenerateDiff returns the diff with each '--- /dev/null'
\* header rewritten to the path of the following '+++' line and every
\* other line unchanged.
C16_NullHeadersRewritten ==
  GitGenerated =>
    /\ exc.kind # "IndexError"
    /\ options.diff = JoinLines(Headed(probe.gitlines))

\* The commands of the current call, in order; the write of the commit
\* message, which is logged only when it fails, is no command.
Commands ==
  LET n == IF cmdlog # <<>> /\ cmdlog[Len(cmdlog)].cmd = "write message"
             THEN Len(cmdlog) - 1 ELSE Len(cmdlog)
  IN  [i \in 1..n |-> cmdlog[i].cmd]

IsPrefix(s, t) == Len(s) <= Len(t) /\ s = SubSeq(t, 1, Len(s))

\* C17: in _SendChangeSVN svn ls precedes any write of the diff file; when
\* ls finds the file the sequence is update, write, commit with no add,
\* otherwise write, add, commit; the commit is issued at most once, as the
\* last command, and only after every step before it succeeded (ls, whose
\* failure means 'not found', excepted).
C17_Sequence ==
  /\ IsPrefix(Commands,
              IF file_found
                THEN <<"checkout", "ls", "update", "write", "commit">>
                ELSE <<"checkout", "ls", "write", "add", "commit">>)
  /\ \A i \in 1..Len(cmdlog) :
       /\ cmdlog[i].cmd = "ls" => (file_found <=> cmdlog[i].error = NoExc)
       /\ (i < Len(cmdlog) /\ cmdlog[i].cmd # "ls") => cmdlog[i].error = NoExc
       /\ cmdlog[i].cmd = "commit" => i = Len(cmdlog)
  /\ file_found => file_name \in DOMAIN remote

\* C17: a call that found the file has ended after update, write, commit.
C17_Witness ==
  /\ pc = "returned"
  /\ file_found
  /\ Commands = <<"checkout", "ls", "update", "write", "commit">>
  /\ cmdlog[5].error = NoExc

\* The transport the settings and the command line select.
Selected ==
  LET o == ParseArgs(argv, GetTryServerSettings(codereview, dns))
  IN  SwitchDefault(o.send_patch, o.host, o.port, o.svn_repo)

\* The 'sent to try server' message was printed.
SentPrinted == \E i \in 1..Len(output) : output[i].kind = "sent"

\* VCS detection raised and returned no source.
DetectionFailed == probe.fail # "not probed" /\ scm = "unset"

\* C18, as stated: the transport is chosen once, before any delivery
\* attempt, and dispatched at most once; no delivery attempt is made in a
\* run where an earlier stage failed; the 'sent' message is printed only
\* after the single attempt succeeded.
C18_OneAttemptNoEarlierFailure ==
  /\ Len(attempts) <= 1
  /\ (Parsed /\ Selected # "error") => options.send_patch = Selected
  /\ attempts # <<>> => attempts[1] = Selected
  /\ attempts # <<>> => ~DetectionFailed
  /\ SentPrinted => Delivered

\* C18, amended: the transport is chosen once, before any delivery
\* attempt, and dispatched at most once: no run makes a second attempt or
\* falls back to the other transport.  No delivery attempt is made after
\* an error left an earlier stage; a NoTryServerAccess raised by VCS
\* detection is dropped when the run holds a diff, and such a run goes on
\* to its single attempt if the caller named the bots.  The 'sent' message
\* is printed only after the single attempt succeeded.
C18_OneAttempt ==
  /\ Len(attempts) <= 1
  /\ (Parsed /\ Selected # "error") => options.send_patch = Selected
  /\ attempts # <<>> => attempts[1] = Selected
  /\ (attempts # <<>> /\ DetectionFailed) =>
       /\ options.diff # <<>>
       /\ argv.bot # <<>>
       /\ ~slaves_called
  /\ (attempts = <<>> /\ pc \in {"except", "done"}) =>
       (requests = <<>> /\ calls = <<>>)
  /\ (attempts # <<>> /\ pc \in {"http", "svn"}) => exc = NoExc
  /\ SentPrinted => Delivered

\* C18: a run whose detection failed has delivered, by its one attempt.
C18_Witness ==
  /\ DetectionFailed
  /\ Len(attempts) = 1
  /\ SentPrinted
  /\ status = "return0"

\* C19: the backend generates the diff at most once in a run, and only
\* when the caller supplied neither --diff nor --url; when the caller
\* supplied a diff the backend generates none.
C19_GeneratedOnlyUnsupplied ==
  /\ ngenerated <= 1
  /\ ngenerated = 1 => (argv.diff = <<>> /\ argv.url = "")
  /\ (argv.diff # <<>> \/ argv.url # "") => ngenerated = 0

\* C20: _SendChangeHTTP called without a host or without a port raises
\* NoTryServerAccess without issuing a request; _SendChangeSVN called
\* without a repository raises NoTryServerAccess without creating a
\* temporary resource or running an svn command.
C20_ValidatedFirst ==
  /\ ( /\ attempts = <<"http">>
       /\ pc # "http"
       /\ options.host = "" \/ options.port = "" ) =>
       /\ requests = <<>>
       /\ exc.kind = "NoTryServerAccess"
       /\ pc \in {"except", "done"}
  /\ ( /\ attempts = <<"svn">>
       /\ pc # "svn"
       /\ options.svn_repo = "" ) =>
       /\ temp_dir = 0 /\ temp_file = 0
       /\ cmdlog = <<>>
       /\ Len(calls) = 1 /\ calls[1].log = <<>> /\ calls[1].result = "raised"
       /\ remote = Holding({FileName(getuser, Unnamed, <<0, 0>>)})
       /\ exc.kind = "NoTryServerAccess"
       /\ pc \in {"except", "done"}

\* C20: _SendChangeHTTP, called with a port and no host, has raised.
C20_Witness ==
  /\ attempts = <<"http">>
  /\ options.host = ""
  /\ options.port # ""
  /\ pc = "except"
  /\ exc.kind = "NoTryServerAccess"
  /\ requests = <<>>

\* C20: _SendChangeSVN, called with no repository, has raised.
C20_WitnessSVN ==
  /\ attempts = <<"svn">>
  /\ options.svn_repo = ""
  /\ pc = "except"
  /\ exc.kind = "NoTryServerAccess"

====
